---- MODULE Spec2Model ----
(***************************************************************************)
(* Knuth-Morris-Pratt substring search (src/src/lib.rs).                   *)
(*                                                                         *)
(* One call of knuth_morris_pratt_by(text, pattern, equal) is modelled as  *)
(* a state machine: the early returns, the choice of the table's storage,  *)
(* prepare_kmp's two loops and the scan's two loops, one action per loop   *)
(* step.  Slices are sequences; the Rust index k is position k + 1.        *)
(* An index out of bounds or an arithmetic underflow moves the call to     *)
(* pc = "panic".                                                           *)
(***************************************************************************)
EXTENDS Integers, Sequences, FiniteSets

VARIABLES
    text,      \* the slice text (lib.rs 48)
    pattern,   \* the slice pattern (lib.rs 48), x inside prepare_kmp
    equal,     \* which predicate the caller passed (lib.rs 48-50)
    pc,        \* where the call stands
    next,      \* the slice next (lib.rs 60-68); <<>> before it is chosen
    prep_i,    \* prepare_kmp's i (lib.rs 12)
    prep_j,    \* prepare_kmp's j (lib.rs 13)
    i,         \* the scan's i (lib.rs 71)
    j,         \* the scan's j (lib.rs 72)
    result     \* the value returned, meaningful once pc = "done"

vars == <<text, pattern, equal, pc, next, prep_i, prep_j, i, j, result>>

(* ------------------------------ bounds -------------------------------- *)

\* longest text and pattern enumerated exhaustively
MaxTextLen == 4
MaxPatLen == 3
\* longest period of the periodic long inputs, longest junk before them
MaxSeedLen == 2
MaxPad == 1
\* longest text and pattern under an arbitrary predicate
MaxAnyLen == 3

(* ----------------------------- elements ------------------------------- *)

\* The element type T: two-component values, as in test_by.  Structural
\* equality tells all three apart; "component sums are equal" identifies
\* the first two.
Elems == {<<0, 1>>, <<1, 0>>, <<1, 1>>}

\* the two-letter alphabet of the long inputs
SimpleElems == {<<0, 1>>, <<1, 1>>}

\* The outcomes a call equal(a, b) can have.  "PartialEq" is PartialEq::eq,
\* "SumEq" is test_by's closure, "Any" is a predicate that promises nothing,
\* not even the same answer twice.
EqualOutcomes(eq, a, b) ==
    IF eq = "PartialEq" THEN {a = b}
    ELSE IF eq = "SumEq" THEN {a[1] + a[2] = b[1] + b[2]}
    ELSE BOOLEAN

\* the answer of a deterministic predicate
Equal(eq, a, b) == TRUE \in EqualOutcomes(eq, a, b)

(* ------------------------------- usize -------------------------------- *)

\* usize::MAX, the value of !0.  The width of usize depends on the target
\* and is at least 16 bits; the model takes 16.
USIZE_MAX == 65535

Sentinel == USIZE_MAX

WrappingAdd1Plain(v) == v + 1

\* v.wrapping_add(1)
WrappingAdd1(v) == (v + 1) % (USIZE_MAX + 1)

\* slice[k] and slice.get(k): position k exists
InBounds(s, k) == k >= 0 /\ k < Len(s)

At(s, k) == s[k + 1]

SetAt(s, k, v) == [s EXCEPT ![k + 1] = v]

Zeros(n) == [k \in 1..n |-> 0]

(* ------------------------------ Option -------------------------------- *)

None == [some |-> FALSE, val |-> 0]

Some(k) == [some |-> TRUE, val |-> k]

(* ---------------------------- allocation ------------------------------ *)

STACK_NEXT_SIZE == 32

StackNextShort == Zeros(STACK_NEXT_SIZE - 1)

\* let mut next_stack = [0; STACK_NEXT_SIZE]
StackNext == Zeros(STACK_NEXT_SIZE)

HeapNextShort(m) == Zeros(m)

\* next_vec = vec![0; pattern.len() + 1]
HeapNext(m) == Zeros(m + 1)

UseHeapOff(m) == m > STACK_NEXT_SIZE

\* if pattern.len() >= STACK_NEXT_SIZE
UseHeap(m) == m >= STACK_NEXT_SIZE

\* the slice `next` handed to prepare_kmp and read by the scan
AllocNext(m) == IF UseHeap(m) THEN HeapNext(m) ELSE StackNext

(* ---------------------------- prepare_kmp ----------------------------- *)

InitTableUnset(nx) == nx

\* next[0] = !0
InitTable(nx) == SetAt(nx, 0, Sentinel)

TableEntryWeak(nx, m, pi, pj, b) == pj

TableEntryOff(nx, m, pi, pj, b) == IF pi # m /\ b THEN At(nx, pj) ELSE pi

TableEntryInverted(nx, m, pi, pj, b) == IF pi # m /\ ~b THEN At(nx, pj) ELSE pj

\* the value stored in next[i] after the advance; b is the answer of
\* equal(&x[i], &x[j]), consulted only when i != x.len()
TableEntry(nx, m, pi, pj, b) == IF pi # m /\ b THEN At(nx, pj) ELSE pj

(* ------------------------------- scan --------------------------------- *)

MatchOffsetEnd(tj, ti) == tj

\* j - i
MatchOffset(tj, ti) == tj - ti

FallbackRestart(nx, ti) == IF ti = 0 THEN Sentinel ELSE 0

\* i = next_i
Fallback(nx, ti) == At(nx, ti)

(* ------------------------------ inputs -------------------------------- *)

SeqsUpTo(S, n) == UNION {[1..k -> S] : k \in 0..n}

\* the first n elements of seed repeated for ever
Periodic(seed, n) == [k \in 1..n |-> seed[((k - 1) % Len(seed)) + 1]]

Seeds == SeqsUpTo(SimpleElems, MaxSeedLen) \ {<<>>}

\* patterns at the allocation threshold: the longest stack pattern and the
\* shortest heap pattern
LongPatterns ==
    {Periodic(s, n) : s \in Seeds, n \in {STACK_NEXT_SIZE - 1, STACK_NEXT_SIZE}}

LongTexts ==
    {p \o Periodic(s, STACK_NEXT_SIZE) :
        p \in SeqsUpTo(SimpleElems, MaxPad), s \in Seeds}

Inputs ==
    (SeqsUpTo(Elems, MaxTextLen) \X SeqsUpTo(Elems, MaxPatLen))
        \cup (LongTexts \X LongPatterns)

AnyInputs == SeqsUpTo(SimpleElems, MaxAnyLen) \X SeqsUpTo(SimpleElems, MaxAnyLen)

(* ------------------- the call as a function of its inputs ------------- *)
(* For a deterministic predicate the call is a function of text, pattern  *)
(* and the storage nx0 it is given for the table.  The operators below    *)
(* compute it loop by loop as the code does.                              *)

RECURSIVE PrepInnerLoop(_, _, _, _, _)
\* lib.rs 16-21: the j that prepare_kmp's inner loop ends with
PrepInnerLoop(eq, x, nx, pi, pj) ==
    IF InBounds(nx, pj) /\ ~Equal(eq, At(x, pi), At(x, pj))
    THEN PrepInnerLoop(eq, x, nx, pi, At(nx, pj))
    ELSE pj

RECURSIVE PrepareKmp(_, _, _, _, _)
\* lib.rs 15-29: the table prepare_kmp leaves, from loop state (pi, pj)
PrepareKmp(eq, x, nx, pi, pj) ==
    IF pi < Len(x)
    THEN LET i1 == pi + 1
             j1 == WrappingAdd1(PrepInnerLoop(eq, x, nx, pi, pj))
             b  == i1 # Len(x) /\ Equal(eq, At(x, i1), At(x, j1))
         IN  PrepareKmp(eq, x, SetAt(nx, i1, TableEntry(nx, Len(x), i1, j1, b)), i1, j1)
    ELSE nx

RECURSIVE ScanInnerLoop(_, _, _, _, _, _)
\* lib.rs 74-79: the i that the scan's inner loop ends with
ScanInnerLoop(eq, t, p, nx, ti, tj) ==
    IF InBounds(nx, ti) /\ ~Equal(eq, At(p, ti), At(t, tj))
    THEN ScanInnerLoop(eq, t, p, nx, Fallback(nx, ti), tj)
    ELSE ti

RECURSIVE ScanFrom(_, _, _, _, _, _)
\* lib.rs 73-87: the scan's result from loop state (ti, tj)
ScanFrom(eq, t, p, nx, ti, tj) ==
    IF tj < Len(t)
    THEN LET i1 == WrappingAdd1(ScanInnerLoop(eq, t, p, nx, ti, tj))
             j1 == tj + 1
         IN  IF i1 >= Len(p)
             THEN Some(MatchOffset(j1, i1))
             ELSE ScanFrom(eq, t, p, nx, i1, j1)
    ELSE None

\* lib.rs 52-88 with the table kept in storage nx0
KmpByWith(eq, t, p, nx0) ==
    IF Len(p) = 0 THEN Some(0)
    ELSE IF Len(p) > Len(t) THEN None
    ELSE ScanFrom(eq, t, p, PrepareKmp(eq, p, InitTable(nx0), 0, Sentinel), 0, 0)

(* ------------------------------ actions ------------------------------- *)

InitWith(inputs, eqs) ==
    /\ \E tp \in inputs : text = tp[1] /\ pattern = tp[2]
    /\ equal \in eqs
    /\ pc = "start"
    /\ next = <<>>
    /\ prep_i = 0
    /\ prep_j = 0
    /\ i = 0
    /\ j = 0
    /\ result = None

Init == InitWith(Inputs, {"PartialEq", "SumEq"})

InitAny == InitWith(AnyInputs, {"Any"})

Panic ==
    /\ pc' = "panic"
    /\ UNCHANGED <<next, prep_i, prep_j, i, j, result>>

\* lib.rs 52-69 and 12-14: the early returns, the choice of the table's
\* storage, and prepare_kmp up to its first loop test
Enter ==
    /\ pc = "start"
    /\ UNCHANGED <<text, pattern, equal>>
    /\ IF Len(pattern) = 0
       THEN /\ result' = Some(0)
            /\ pc' = "done"
            /\ UNCHANGED <<next, prep_i, prep_j, i, j>>
       ELSE IF Len(pattern) > Len(text)
       THEN /\ result' = None
            /\ pc' = "done"
            /\ UNCHANGED <<next, prep_i, prep_j, i, j>>
       ELSE LET nx == AllocNext(Len(pattern)) IN
            IF ~InBounds(nx, 0) THEN Panic
            ELSE /\ next' = InitTable(nx)
                 /\ prep_i' = 0
                 /\ prep_j' = Sentinel
                 /\ pc' = IF 0 < Len(pattern) THEN "prep_inner" ELSE "scan_test"
                 /\ UNCHANGED <<i, j, result>>

\* lib.rs 16-21: one turn of prepare_kmp's inner loop
PrepInner ==
    /\ pc = "prep_inner"
    /\ UNCHANGED <<text, pattern, equal>>
    /\ IF ~InBounds(next, prep_j)
       THEN /\ pc' = "prep_advance"
            /\ UNCHANGED <<next, prep_i, prep_j, i, j, result>>
       ELSE IF ~InBounds(pattern, prep_i) \/ ~InBounds(pattern, prep_j)
       THEN Panic
       ELSE \E b \in EqualOutcomes(equal, At(pattern, prep_i), At(pattern, prep_j)) :
            /\ IF b
               THEN pc' = "prep_advance" /\ prep_j' = prep_j
               ELSE pc' = "prep_inner" /\ prep_j' = At(next, prep_j)
            /\ UNCHANGED <<next, prep_i, i, j, result>>

\* lib.rs 22-28, the loop test of line 15 and, when prepare_kmp returns,
\* the scan's let mut i = 0; let mut j = 0 of lines 71-72
PrepAdvance ==
    /\ pc = "prep_advance"
    /\ UNCHANGED <<text, pattern, equal>>
    /\ LET i1 == prep_i + 1
           j1 == WrappingAdd1(prep_j)
           m  == Len(pattern)
       IN  IF i1 # m /\ (~InBounds(pattern, i1) \/ ~InBounds(pattern, j1))
           THEN Panic
           ELSE \E b \in (IF i1 # m
                          THEN EqualOutcomes(equal, At(pattern, i1), At(pattern, j1))
                          ELSE {FALSE}) :
                IF ~InBounds(next, i1) \/ (i1 # m /\ b /\ ~InBounds(next, j1))
                THEN Panic
                ELSE /\ next' = SetAt(next, i1, TableEntry(next, m, i1, j1, b))
                     /\ prep_i' = i1
                     /\ prep_j' = j1
                     /\ pc' = IF i1 < m THEN "prep_inner" ELSE "scan_test"
                     /\ IF i1 < m THEN UNCHANGED <<i, j>> ELSE i' = 0 /\ j' = 0
                     /\ UNCHANGED result

\* lib.rs 73 and 87: the scan's loop test
ScanTest ==
    /\ pc = "scan_test"
    /\ UNCHANGED <<text, pattern, equal, next, prep_i, prep_j, i, j>>
    /\ IF j < Len(text)
       THEN pc' = "scan_inner" /\ result' = result
       ELSE pc' = "done" /\ result' = None

\* lib.rs 74-79: one turn of the scan's inner loop
ScanInner ==
    /\ pc = "scan_inner"
    /\ UNCHANGED <<text, pattern, equal>>
    /\ IF ~InBounds(next, i)
       THEN /\ pc' = "scan_advance"
            /\ UNCHANGED <<next, prep_i, prep_j, i, j, result>>
       ELSE IF ~InBounds(pattern, i) \/ ~InBounds(text, j)
       THEN Panic
       ELSE \E b \in EqualOutcomes(equal, At(pattern, i), At(text, j)) :
            /\ IF b
               THEN pc' = "scan_advance" /\ i' = i
               ELSE pc' = "scan_inner" /\ i' = Fallback(next, i)
            /\ UNCHANGED <<next, prep_i, prep_j, j, result>>

\* lib.rs 80-85
ScanAdvance ==
    /\ pc = "scan_advance"
    /\ UNCHANGED <<text, pattern, equal>>
    /\ LET i1 == WrappingAdd1(i)
           j1 == j + 1
       IN  IF i1 >= Len(pattern)
           THEN IF MatchOffset(j1, i1) < 0
                THEN /\ pc' = "panic"
                     /\ i' = i1
                     /\ j' = j1
                     /\ UNCHANGED <<next, prep_i, prep_j, result>>
                ELSE /\ result' = Some(MatchOffset(j1, i1))
                     /\ pc' = "done"
                     /\ i' = i1
                     /\ j' = j1
                     /\ UNCHANGED <<next, prep_i, prep_j>>
           ELSE /\ i' = i1
                /\ j' = j1
                /\ pc' = "scan_test"
                /\ UNCHANGED <<next, prep_i, prep_j, result>>

Next ==
    \/ Enter
    \/ PrepInner
    \/ PrepAdvance
    \/ ScanTest
    \/ ScanInner
    \/ ScanAdvance

Spec == Init /\ [][Next]_vars

\* the call is one thread that runs until it returns
FairSpecAny == InitAny /\ [][Next]_vars /\ WF_vars(Next)

(* ========================== reference notions ========================= *)

M == Len(pattern)

N == Len(text)

\* pattern p occurs in t at offset k under the relation eq
Matches(eq, t, p, k) ==
    /\ k >= 0
    /\ k + Len(p) <= Len(t)
    /\ \A x \in 0..(Len(p) - 1) : Equal(eq, At(p, x), At(t, k + x))

Occurrences(eq, t, p) == {k \in 0..(Len(t) - Len(p)) : Matches(eq, t, p, k)}

Min(S) == CHOOSE k \in S : \A l \in S : k <= l

Max(S) == CHOOSE k \in S : \A l \in S : k >= l

\* the naive search: the lowest offset of an occurrence
NaiveFind(eq, t, p) ==
    IF Occurrences(eq, t, p) = {} THEN None ELSE Some(Min(Occurrences(eq, t, p)))

\* the first b elements of p[0..n) are also its last b, b < n
IsBorder(eq, p, n, b) ==
    /\ b >= 0
    /\ b < n
    /\ \A x \in 0..(b - 1) : Equal(eq, At(p, x), At(p, n - b + x))

Borders(eq, p, n) == {b \in 0..(n - 1) : IsBorder(eq, p, n, b)}

\* the borders of p[0..n) whose continuation p[b] differs from p[n]
StrongBorders(eq, p, n) == {b \in Borders(eq, p, n) : ~Equal(eq, At(p, b), At(p, n))}

StrongFailure(eq, p, n) ==
    IF n = Len(p) THEN Max(Borders(eq, p, n))
    ELSE IF StrongBorders(eq, p, n) = {} THEN Sentinel
    ELSE Max(StrongBorders(eq, p, n))

Returned == pc = "done"

\* prepare_kmp has run to its end
Prepared == pc \in {"scan_test", "scan_inner", "scan_advance"} \/ (pc = "done" /\ next # <<>>)

\* prepare_kmp has just returned: the scan stands at its first loop test
JustPrepared == pc = "scan_test" /\ j = 0

\* the table exists: prepare_kmp has been called
Allocated == next # <<>>

(* ================================ C1 ================================== *)

\* C1: under structural equality the call returns, and returns what the
\* naive search returns: Some(k) for the lowest offset k of an occurrence of
\* pattern in text, None when there is none.
C1_EqualsNaiveSearch ==
    equal = "PartialEq" =>
        /\ pc # "panic"
        /\ Returned => result = NaiveFind("PartialEq", text, pattern)

\* an occurrence found at offset 1 after the scan fell back through the table
C1_Witness ==
    /\ Returned
    /\ equal = "PartialEq"
    /\ M = 3
    /\ N = 4
    /\ At(pattern, 0) = At(pattern, 1)
    /\ At(pattern, 1) # At(pattern, 2)
    /\ result = Some(1)

(* ================================ C2 ================================== *)

\* C2: a returned Some(k) is a match under the relation in use:
\* 0 <= k <= text.len() - pattern.len() and equal(pattern[x], text[k + x])
\* for every x.
C2_MatchValid ==
    (Returned /\ result.some) =>
        /\ 0 <= result.val
        /\ result.val <= N - M
        /\ \A x \in 0..(M - 1) : Equal(equal, At(pattern, x), At(text, result.val + x))

\* a match under "sums are equal" that is no match under structural equality
C2_Witness ==
    /\ Returned
    /\ equal = "SumEq"
    /\ result.some
    /\ M = 2
    /\ \A x \in 0..(M - 1) : At(pattern, x) # At(text, result.val + x)

(* ================================ C3 ================================== *)

\* C3: no offset below a returned Some(k) is a match under the relation in
\* use, and None is returned only when no offset is a match.
C3_FirstOccurrence ==
    Returned =>
        IF result.some
        THEN \A k \in 0..(result.val - 1) : ~Matches(equal, text, pattern, k)
        ELSE Occurrences(equal, text, pattern) = {}

\* a match at the last possible offset, with a later pattern element matched
\* earlier in the text, under "sums are equal"
C3_Witness ==
    /\ Returned
    /\ equal = "SumEq"
    /\ M = 3
    /\ result = Some(N - M)
    /\ result.val >= 1
    /\ Equal(equal, At(pattern, 0), At(text, 0))
    /\ At(pattern, 0) # At(text, result.val)

(* ================================ C4 ================================== *)

\* C4: with a well-behaved predicate no call panics: every index that
\* prepare_kmp and the scan are about to use is in bounds, and the
\* subtraction j - i of the match report does not underflow.
C4_NoPanic ==
    /\ pc # "panic"
    /\ pc = "prep_inner" =>
        /\ InBounds(pattern, prep_i)
        /\ InBounds(next, prep_j) => InBounds(pattern, prep_j)
    /\ pc = "prep_advance" =>
        /\ InBounds(next, prep_i + 1)
        /\ prep_i + 1 # M =>
            /\ InBounds(pattern, prep_i + 1)
            /\ InBounds(pattern, WrappingAdd1(prep_j))
            /\ InBounds(next, WrappingAdd1(prep_j))
    /\ pc = "scan_inner" =>
        /\ InBounds(text, j)
        /\ InBounds(next, i) => InBounds(pattern, i)
    /\ pc = "scan_advance" =>
        (WrappingAdd1(i) >= M => (j + 1) - WrappingAdd1(i) >= 0)

\* the shortest heap pattern, its table written up to next[pattern.len()],
\* at the point where the match is about to be reported
C4_Witness ==
    /\ pc = "scan_advance"
    /\ M = STACK_NEXT_SIZE
    /\ Len(next) = M + 1
    /\ WrappingAdd1(i) = M
    /\ j + 1 > M

(* ================================ C5 ================================== *)

\* C5: where the table lives does not show in the result.  Every call
\* returns what it would return with the table in a heap vector of
\* pattern.len() + 1 slots and, whenever the pattern fits the stack buffer,
\* what it would return with the table in the stack buffer; at the boundary
\* lengths STACK_NEXT_SIZE - 1 and STACK_NEXT_SIZE that result is the naive
\* search's.
C5_AllocationInvisible ==
    /\ pc # "panic"
    /\ Returned =>
        /\ result = KmpByWith(equal, text, pattern, HeapNext(M))
        /\ M + 1 <= STACK_NEXT_SIZE =>
            result = KmpByWith(equal, text, pattern, StackNext)
        /\ M \in {STACK_NEXT_SIZE - 1, STACK_NEXT_SIZE} =>
            result = NaiveFind(equal, text, pattern)

\* the longest stack pattern, which needs every slot of the buffer, found
\* at offset 1
C5_Witness ==
    /\ Returned
    /\ M = STACK_NEXT_SIZE - 1
    /\ Len(next) = STACK_NEXT_SIZE
    /\ At(next, M) # 0
    /\ result = Some(1)

(* ================================ C6 ================================== *)

\* C6 as stated: the table handed to prepare_kmp and read by the scan has
\* exactly pattern.len() + 1 slots on both allocation paths.
C6_Original_LengthExact == Allocated => Len(next) = M + 1

\* C6 amended: the table has at least pattern.len() + 1 slots; exactly
\* pattern.len() + 1 on the heap path and exactly STACK_NEXT_SIZE on the
\* stack path, where the slots past index pattern.len() keep their 0.
C6_TableLength ==
    Allocated =>
        /\ Len(next) >= M + 1
        /\ Len(next) = (IF M >= STACK_NEXT_SIZE THEN M + 1 ELSE STACK_NEXT_SIZE)
        /\ \A k \in (M + 1)..(Len(next) - 1) : At(next, k) = 0

\* a two-element pattern searched to the end with a 32-slot table
C6_Witness ==
    /\ Returned
    /\ Allocated
    /\ M = 2
    /\ Len(next) = STACK_NEXT_SIZE
    /\ result.some
    /\ result.val = 2

(* ================================ C7 ================================== *)

\* the highest index of next that prepare_kmp has written so far
Written == IF Prepared THEN M ELSE prep_i

C7_Shape ==
    Allocated =>
        /\ At(next, 0) = Sentinel
        /\ \A k \in 1..Written : At(next, k) = Sentinel \/ At(next, k) < k

C7_Stable ==
    Allocated =>
        /\ Len(next') = Len(next)
        /\ \A k \in 0..Written : At(next', k) = At(next, k)

\* C7: at every step of prepare_kmp and ever after, next[0] is the sentinel
\* and each written next[k], 1 <= k <= pattern.len(), is the sentinel or
\* less than k; no step changes an entry that has been written.
C7_TableInvariant == [](C7_Shape) /\ [][C7_Stable]_vars

\* the finished table of a pattern like a a b: sentinel, sentinel, 1, 0
C7_Witness ==
    /\ Returned
    /\ Allocated
    /\ M = 3
    /\ At(next, 1) = Sentinel
    /\ At(next, 2) = 1
    /\ At(next, 3) = 0

(* ================================ C8 ================================== *)

\* C8: when prepare_kmp returns, the table is the strong failure function: for 1 <= n < m,
\* next[n] is the longest proper border b of pattern[0..n) with pattern[b]
\* different from pattern[n], or the sentinel when there is none; next[m] is
\* the longest proper border of the whole pattern.
C8_StrongFailure ==
    JustPrepared => \A n \in 1..M : At(next, n) = StrongFailure(equal, pattern, n)

\* a 32-element pattern of period 2: its border is 30, and next[2] is the
\* sentinel because the empty border continues with pattern[0] = pattern[2]
C8_Witness ==
    /\ JustPrepared
    /\ M = STACK_NEXT_SIZE
    /\ At(pattern, 0) # At(pattern, 1)
    /\ At(next, M) = M - 2
    /\ At(next, 2) = Sentinel
    /\ At(next, 1) = 0

(* ================================ C9 ================================== *)

Scanning == pc \in {"scan_test", "scan_inner", "scan_advance"}

C9_Scan ==
    /\ Scanning => j <= N
    /\ pc \in {"scan_inner", "scan_advance"} => j < N
    /\ pc = "scan_test" => i < M
    /\ (Returned /\ Allocated /\ result.some) => (i = M /\ result.val = j - i)
    /\ (Returned /\ Allocated /\ ~result.some) => j = N

C9_Step ==
    /\ pc # "done"
    /\ (pc = "prep_advance" /\ pc' = "scan_test") => (j' = 0 /\ i' = 0)
    /\ pc \in {"scan_test", "scan_inner"} => j' = j
    /\ pc = "scan_advance" =>
        /\ j' = j + 1
        /\ i' >= M => (pc' = "done" /\ i' = M /\ result' = Some(j' - i'))

\* C9: the scan is one forward pass that stops at the first match.  j
\* starts at 0, is left alone by the inner loop and grows by one per outer
\* turn, and never passes text.len(); the step at which i reaches
\* pattern.len() returns j - i with i = pattern.len(), and nothing follows
\* a return.
C9_SinglePass == [](C9_Scan) /\ [][C9_Step]_vars

\* a match reported before the text is exhausted
C9_Witness ==
    /\ Returned
    /\ M = 2
    /\ i = M
    /\ j < N
    /\ result = Some(j - M)
    /\ result.val >= 1

(* ================================ C10 ================================= *)

C10_Safe ==
    /\ pc # "panic"
    /\ Scanning => (i = Sentinel \/ i <= j)
    /\ (pc = "prep_inner" /\ InBounds(next, prep_j)) =>
        (At(next, prep_j) = Sentinel \/ At(next, prep_j) < prep_j)
    /\ (pc = "scan_inner" /\ InBounds(next, i)) =>
        (At(next, i) = Sentinel \/ At(next, i) < i)
    /\ (Returned /\ result.some) => (0 <= result.val /\ result.val <= N - M)

\* C10: whatever the predicate answers, and however it changes its answers
\* between calls, the call never panics, the pattern index stays at or below
\* the text index, the table entry a fallback is about to take is below the
\* index or the sentinel, a returned Some(k) has 0 <= k <= text.len() -
\* pattern.len(), and the call returns.
C10_AnyPredicate == [](C10_Safe) /\ <>(pc = "done")

\* a match reported where the elements differ and are not even equal to
\* themselves by the answers given: the predicate said yes all the same
C10_Witness ==
    /\ Returned
    /\ equal = "Any"
    /\ M = 2
    /\ result = Some(0)
    /\ At(pattern, 0) # At(text, 0)
    /\ At(pattern, 1) # At(text, 1)
    /\ At(next, 1) = Sentinel

====
